---- MODULE Spec2Model ----
(***************************************************************************)
(* A model of src/src/geo.ts: the packed Point representation, the         *)
(* line-of-sight rasteriser LOS, the open-addressing HashTable and the     *)
(* AStar search.  Points are modelled as the packed integers the code      *)
(* uses.  Each component has its own specification (SpecPoint, SpecLOS,    *)
(* SpecHashTable, SpecAStar); the variables of the other components are    *)
(* held at an idle value.                                                  *)
(***************************************************************************)
EXTENDS Integers, Sequences, FiniteSets, TLC

VARIABLES
  pc,          \* position of the component under analysis
  pin, pout,   \* Point: the coordinates given to Point.make and what came back
  la, lb,      \* LOS: the two endpoints
  lfwd, lbwd,  \* LOS: LOS(la, lb) and LOS(lb, la)
  size, capacity, max_size, keys, vals,   \* HashTable: the fields of the table
  shadow,      \* HashTable: the map the calls made so far describe
  call,        \* HashTable: the last call made and how it ended
  source, target, status,   \* AStar: its arguments (status is the classifier's table)
  los, map, heap,           \* AStar: the line, the node registry, the frontier
  record, result,           \* AStar: the record sink and the value returned
  checked,                  \* AStar: the points the classifier was called with
  mxsize, mxdata,           \* Matrix: the fields of the matrix
  mxshadow,                 \* Matrix: the value last written to each point
  mxcall                    \* Matrix: the last call made and how it ended

ptVars == <<pin, pout>>
losVars == <<la, lb, lfwd, lbwd>>
htVars == <<size, capacity, max_size, keys, vals, shadow, call>>
asVars == <<source, target, status, los, map, heap, record, result, checked>>
mxVars == <<mxsize, mxdata, mxshadow, mxcall>>
vars == <<pc, ptVars, losVars, htVars, asVars, mxVars>>

\* ------------------------------------------------------------------------
\* Bounds of the analysis.

\* Point coordinates are drawn within PointEdge of -16384, of 0 and of 16384.
PointEdge == 1
\* LOS endpoints are drawn from the square -LosRadius..LosRadius.
LosRadius == 3
\* HashTable keys are drawn from 0..MaxKey and values from 0..MaxVal; the
\* constructor's capacity hint from -1..MaxTarget.
MaxKey == 3
MaxNegKey == 2
MaxVal == 1
MaxTarget == 5
\* Matrix sizes go up to MatW x MatH; the points given to its calls lie one
\* cell around the largest matrix.
MatW == 2
MatH == 2
\* AStar runs on a grid of GridW x GridH cells, outside of which every cell is
\* BLOCKED, with at most MaxBlocked BLOCKED and MaxOccupied OCCUPIED cells in it.
GridW == 3
\* A second family of AStar runs crosses a grid of WideW x WideH cells from
\* its first column to its last one.
WideW == 4
WideH == 3
GridH == 3
MaxBlocked == 4
MaxOccupied == 1

\* ------------------------------------------------------------------------
\* Arithmetic helpers (Math.abs, Math.min, Math.max).

Abs(n) == IF n < 0 THEN -n ELSE n
Min(m, n) == IF m < n THEN m ELSE n
Max(m, n) == IF m < n THEN n ELSE m

Reverse(s) == [i \in 1..Len(s) |-> s[Len(s) + 1 - i]]

\* ------------------------------------------------------------------------
\* Point: a pair (x, y) packed in one integer.  x << 15 is x * 32768,
\* a >> 15 is floor(a / 32768) and a & 0x7fff is a mod 32768; every value
\* met here is within the 32-bit range the JavaScript operators keep.

kOffset == 16384
kOrigin == (kOffset * 32768) + kOffset

PointMakeNarrow(x, y) == kOrigin + x + (y * 16384)

PointMake(x, y) == kOrigin + x + (y * 32768)

PointX(a) == (a % 32768) - kOffset
PointY(a) == (a \div 32768) - kOffset

PointAddLowOrigin(a, b) == a + (b - kOffset)

PointAdd(a, b) == a + (b - kOrigin)
PointSub(a, b) == a - (b - kOrigin)
PointEqual(a, b) == a = b
PointKey(point) == point

\* ------------------------------------------------------------------------
\* Matrix.  A matrix is the record of its size (a Point) and its data, a
\* function on 0..width*height-1.  get and set end with a value or "ok", or
\* throw; getOrNull ends with a value or null.

MatrixContainsByIndex(sz, p) ==
  LET index == PointX(p) + (PointX(sz) * PointY(p))
  IN  0 <= index /\ index < PointX(sz) * PointY(sz)

MatrixContains(sz, p) ==
  LET px == PointX(p)
      py == PointY(p)
  IN  (0 <= px /\ px < PointX(sz)) /\ (0 <= py /\ py < PointY(sz))

MatrixIndex(sz, p) == PointX(p) + (PointX(sz) * PointY(p))

MatrixNew(sz, value) ==
  [size |-> sz,
   data |-> [i \in 0..((PointX(sz) * PointY(sz)) - 1) |-> value]]

MatrixGet(m, p) ==
  IF ~MatrixContains(m.size, p) THEN [kind |-> "throws", val |-> "none"]
  ELSE [kind |-> "value", val |-> m.data[MatrixIndex(m.size, p)]]

MatrixSet(m, p, value) ==
  IF ~MatrixContains(m.size, p) THEN [m |-> m, out |-> "throws"]
  ELSE [m |-> [m EXCEPT !.data[MatrixIndex(m.size, p)] = value], out |-> "ok"]

MatrixGetOrNull(m, p) ==
  IF ~MatrixContains(m.size, p) THEN [kind |-> "null", val |-> "none"]
  ELSE [kind |-> "value", val |-> m.data[MatrixIndex(m.size, p)]]

MatrixFill(m, value) == [m EXCEPT !.data = [i \in DOMAIN m.data |-> value]]

\* ------------------------------------------------------------------------
\* LOS: the line from a to b, both endpoints included.

LOSInitialTestNoHalf(diff, test) == diff + test

LOSInitialTest(diff, test) == (diff + test) \div 2

RECURSIVE LOSLoopX(_, _, _, _, _, _, _, _, _)
LOSLoopX(i, x, y, test, x_diff, y_diff, x_sign, y_sign, points) ==
  IF i >= x_diff THEN points
  ELSE LET x1 == x + x_sign
           t1 == test - y_diff
           y1 == IF t1 < 0 THEN y + y_sign ELSE y
           t2 == IF t1 < 0 THEN t1 + x_diff ELSE t1
       IN  LOSLoopX(i + 1, x1, y1, t2, x_diff, y_diff, x_sign, y_sign,
                    Append(points, PointMake(x1, y1)))

RECURSIVE LOSLoopY(_, _, _, _, _, _, _, _, _)
LOSLoopY(i, x, y, test, x_diff, y_diff, x_sign, y_sign, points) ==
  IF i >= y_diff THEN points
  ELSE LET y1 == y + y_sign
           t1 == test - x_diff
           x1 == IF t1 < 0 THEN x + x_sign ELSE x
           t2 == IF t1 < 0 THEN t1 + y_diff ELSE t1
       IN  LOSLoopY(i + 1, x1, y1, t2, x_diff, y_diff, x_sign, y_sign,
                    Append(points, PointMake(x1, y1)))

LOS(a, b) ==
  LET xa == PointX(a)
      ya == PointY(a)
      xb == PointX(b)
      yb == PointY(b)
      x_diff == Abs(xa - xb)
      y_diff == Abs(ya - yb)
      x_sign == IF xb < xa THEN -1 ELSE 1
      y_sign == IF yb < ya THEN -1 ELSE 1
  IN  IF x_diff >= y_diff
      THEN LOSLoopX(0, xa, ya, LOSInitialTest(x_diff, 0),
                    x_diff, y_diff, x_sign, y_sign, <<a>>)
      ELSE LOSLoopY(0, xa, ya, LOSInitialTest(y_diff, 0),
                    x_diff, y_diff, x_sign, y_sign, <<a>>)

\* ------------------------------------------------------------------------
\* Bitwise operators on non-negative integers (^ and &).

RECURSIVE BitXor(_, _)
BitXor(a, b) ==
  IF a = 0 THEN b
  ELSE IF b = 0 THEN a
  ELSE ((a + b) % 2) + (2 * BitXor(a \div 2, b \div 2))

RECURSIVE BitAnd(_, _)
BitAnd(a, b) ==
  IF a = 0 \/ b = 0 THEN 0
  ELSE ((a % 2) * (b % 2)) + (2 * BitAnd(a \div 2, b \div 2))

RECURSIVE BitOr(_, _)
BitOr(a, b) ==
  IF a = 0 THEN b
  ELSE IF b = 0 THEN a
  ELSE (IF a % 2 = 1 \/ b % 2 = 1 THEN 1 ELSE 0) + (2 * BitOr(a \div 2, b \div 2))

\* ------------------------------------------------------------------------
\* HashTable.  A table is the record of its fields; keys and vals are
\* functions on 0..capacity-1.  A call ends "ok" or, when its probe loop
\* never meets an exit, "diverges".

kMissing == -1
kTombstone == -2
kMinCapacity == 4

\* One round of hash(): mixes one byte of the key into (v0, v1).
HashRound(v, byte) ==
  LET v0 == BitXor(v[1], byte)
      t0 == v0 * 403
      t1 == (v[2] * 403) + (v0 * 256)
  IN  <<t0 % 65536, (t1 + (t0 \div 65536)) % 65536>>

\* (v1 & 0x3fff << 16) is v1 & (0x3fff << 16): << binds tighter than &.
Hash(key) ==
  LET r1 == HashRound(<<40389, 33052>>, key % 256)
      r2 == HashRound(r1, (key \div 256) % 256)
      r3 == HashRound(r2, (key \div 65536) % 256)
      r4 == HashRound(r3, (key \div 16777216) % 256)
  IN  BitAnd(r4[2], 16383 * 65536) + r4[1]

\* hash() is a pure function of the key: its values on the keys in use.
HashOfKey == [key \in 0..MaxKey |-> Hash(key)]

\* The first slot probed: hash(key) & (capacity - 1).
HTHome(t, key) == BitAnd(HashOfKey[key], t.capacity - 1)

\* The probe sequence of a key is hash + 0, 1, 3, 6, ... modulo capacity; it
\* repeats with period 2 * capacity, and the loops change nothing they read,
\* so a loop that has made 2 * capacity probes without leaving never leaves.
ProbePeriod(cap) == 2 * cap

HTInitFullLoad(cap) ==
  [size |-> 0, capacity |-> cap, max_size |-> cap,
   keys |-> [i \in 0..(cap - 1) |-> kMissing],
   vals |-> [i \in 0..(cap - 1) |-> 0]]

\* max_size = capacity * 0.75, exact because capacity is a multiple of 4.
HTInit(cap) ==
  [size |-> 0, capacity |-> cap, max_size |-> (cap * 3) \div 4,
   keys |-> [i \in 0..(cap - 1) |-> kMissing],
   vals |-> [i \in 0..(cap - 1) |-> 0]]

RECURSIVE HTConstructorLoop(_, _)
HTConstructorLoop(cap, hint) ==
  IF cap < hint THEN HTConstructorLoop(cap * 2, hint) ELSE cap

HTConstructor(hint) == HTInit(HTConstructorLoop(kMinCapacity, hint))

RECURSIVE HTGetLoop(_, _, _, _)
HTGetLoop(t, key, current, delta) ==
  IF delta > ProbePeriod(t.capacity) THEN [kind |-> "diverges", val |-> 0]
  ELSE LET probe == t.keys[current]
       IN  IF probe = key THEN [kind |-> "value", val |-> t.vals[current]]
           ELSE IF probe = kMissing THEN [kind |-> "null", val |-> 0]
           ELSE HTGetLoop(t, key, BitAnd(current + delta, t.capacity - 1),
                          delta + 1)

\* get(): assert(key >= 0) throws before the table is read.
HTGet(t, key) ==
  IF key < 0 THEN [kind |-> "throws", val |-> 0]
  ELSE HTGetLoop(t, key, HTHome(t, key), 1)

\* The probe loop of set: where the key is ("found"), or the slot a new key
\* goes to ("insert": the first tombstone passed, else the empty slot).
RECURSIVE HTSetLoop(_, _, _, _, _)
HTSetLoop(t, key, current, tomb, delta) ==
  IF delta > ProbePeriod(t.capacity) THEN [kind |-> "diverges", at |-> 0]
  ELSE LET probe == t.keys[current]
       IN  IF probe = key THEN [kind |-> "found", at |-> current]
           ELSE IF probe = kMissing
             THEN [kind |-> "insert", at |-> IF tomb = -1 THEN current ELSE tomb]
           ELSE HTSetLoop(t, key, BitAnd(current + delta, t.capacity - 1),
                          IF probe = kTombstone /\ tomb = -1 THEN current ELSE tomb,
                          delta + 1)

RECURSIVE HTSetFrom(_, _, _)
RECURSIVE HTRebuildLoop(_, _, _)

\* rebuild's loop over the old arrays: acc is the table being filled.
HTRebuildLoop(old, i, acc) ==
  IF i >= old.capacity \/ acc.out = "diverges" THEN acc
  ELSE IF old.keys[i] < 0 THEN HTRebuildLoop(old, i + 1, acc)
  ELSE HTRebuildLoop(old, i + 1, HTSetFrom(acc.t, old.keys[i], old.vals[i]))

HTRebuild(t, cap) ==
  HTRebuildLoop(t, 0, [t |-> HTInit(cap), out |-> "ok"])

HTSetStoreAlwaysCounts(t, p, key, val) ==
  IF p.kind = "diverges" THEN [t |-> t, out |-> "diverges"]
  ELSE [t |-> [t EXCEPT !.keys[p.at] = key, !.vals[p.at] = val,
                        !.size = t.size + 1],
        out |-> "ok"]

\* set(), after its probe loop ended with p in table t.
HTSetStore(t, p, key, val) ==
  IF p.kind = "diverges" THEN [t |-> t, out |-> "diverges"]
  ELSE IF p.kind = "found"
    THEN [t |-> [t EXCEPT !.vals[p.at] = val], out |-> "ok"]
  ELSE [t |-> [t EXCEPT !.keys[p.at] = key, !.vals[p.at] = val,
                        !.size = t.size + 1],
        out |-> "ok"]

\* set(), from its probe loop on: r is the table after the grow check.
HTSetProbe(r, key, val) ==
  IF r.out = "diverges" THEN r
  ELSE HTSetStore(r.t, HTSetLoop(r.t, key, HTHome(r.t, key), -1, 1), key, val)

HTSetNoGrow(t, key, val) ==
  IF key < 0 THEN [t |-> t, out |-> "throws"]
  ELSE HTSetProbe([t |-> t, out |-> "ok"], key, val)

\* set(): assert(key >= 0) throws before the grow check and the probe loop.
HTSetFrom(t, key, val) ==
  IF key < 0 THEN [t |-> t, out |-> "throws"]
  ELSE HTSetProbe(IF t.size = t.max_size THEN HTRebuild(t, 2 * t.capacity)
                  ELSE [t |-> t, out |-> "ok"],
                  key, val)

HTSetClampsKey(t, key, val) == HTSetFrom(t, IF key < 0 THEN 0 ELSE key, val)

HTSet(t, key, val) == HTSetFrom(t, key, val)

RECURSIVE HTRemoveLoop(_, _, _, _)
HTRemoveLoop(t, key, current, delta) ==
  IF delta > ProbePeriod(t.capacity) THEN [kind |-> "diverges", at |-> 0]
  ELSE LET probe == t.keys[current]
       IN  IF probe = key THEN [kind |-> "found", at |-> current]
           ELSE IF probe = kMissing THEN [kind |-> "missing", at |-> 0]
           ELSE HTRemoveLoop(t, key, BitAnd(current + delta, t.capacity - 1),
                             delta + 1)

\* remove(), after its probe loop ended with p in table t.
HTRemoveStore(t, p) ==
  IF p.kind = "diverges" THEN [t |-> t, out |-> "diverges"]
  ELSE IF p.kind = "found"
    THEN [t |-> [t EXCEPT !.keys[p.at] = kTombstone, !.size = t.size - 1],
          out |-> "ok"]
  ELSE [t |-> t, out |-> "ok"]

\* remove(), from its probe loop on: r is the table after the shrink check.
HTRemoveProbe(r, key) ==
  IF r.out = "diverges" THEN r
  ELSE HTRemoveStore(r.t, HTRemoveLoop(r.t, key, HTHome(r.t, key), 1))

\* remove(): assert(key >= 0) throws before the shrink check and the loop.
HTRemove(t, key) ==
  IF key < 0 THEN [t |-> t, out |-> "throws"]
  ELSE HTRemoveProbe(IF 4 * t.size < t.max_size /\ t.capacity > kMinCapacity
                     THEN HTRebuild(t, t.capacity \div 2)
                     ELSE [t |-> t, out |-> "ok"],
                     key)

\* show(), up to its assertion: "ok" when the number of slots with a live key
\* is the size, "throws" when it is not.
HTShow(t) ==
  IF Cardinality({i \in 0..(t.capacity - 1) : t.keys[i] >= 0}) = t.size
  THEN "ok" ELSE "throws"

\* ------------------------------------------------------------------------
\* Direction.all, in the code's order: n, ne, e, se, s, sw, w, nw.

DirectionCardinalsFirst ==
  <<PointMake(0, -1), PointMake(1, 0), PointMake(0, 1), PointMake(-1, 0),
    PointMake(1, -1), PointMake(1, 1), PointMake(-1, 1), PointMake(-1, -1)>>

DirectionAll ==
  <<PointMake(0, -1), PointMake(1, -1), PointMake(1, 0), PointMake(1, 1),
    PointMake(0, 1), PointMake(-1, 1), PointMake(-1, 0), PointMake(-1, -1)>>

\* ------------------------------------------------------------------------
\* AStar.  A node is a record; the registry maps Point.key to the node, and a
\* reference to a node (a parent link, an entry of the frontier) is the key of
\* the node, NoNode for null.

AStarUnitCost == 16
AStarDiagonalPenalty == 2
AStarLOSDeltaPenalty == 1
AStarOccupiedPenalty == 64
kNumDirections == 8

NoNode == -1

AStarHeuristicDelta(px, py, sx, sy, tx, ty, line) ==
  LET dx == tx - sx
      dy == ty - sy
      l == Len(line) - 1
  IN  IF Abs(dx) > Abs(dy)
      THEN LET index == IF dx > 0 THEN px - sx ELSE sx - px
           IN  IF index < 0 THEN Abs(px - sx) + Abs(py - sy)
               ELSE IF index > l THEN Abs(px - tx) + Abs(py - ty)
               ELSE Abs(py - PointY(line[index + 1]))
      ELSE LET index == IF dy > 0 THEN py - sy ELSE sy - py
           IN  IF index < 0 THEN Abs(px - sx) + Abs(py - sy)
               ELSE IF index > l THEN Abs(px - tx) + Abs(py - ty)
               ELSE Abs(px - PointX(line[index + 1]))

AStarHeuristic(p, line) ==
  LET px == PointX(p)
      py == PointY(p)
      tx == PointX(line[Len(line)])
      ty == PointY(line[Len(line)])
      x == Abs(tx - px)
      y == Abs(ty - py)
  IN  (AStarUnitCost * Max(x, y)) + (AStarDiagonalPenalty * Min(x, y))
        + (AStarLOSDeltaPenalty *
             AStarHeuristicDelta(px, py, PointX(line[1]), PointY(line[1]),
                                 tx, ty, line))

AStarNode(point, parent, bits, distance, score) ==
  [point |-> point, parent |-> parent, bits |-> bits,
   distance |-> distance, score |-> score]

RECURSIVE AStarHeapScanFirst(_, _, _, _, _)
AStarHeapScanFirst(h, m, i, best_index, best_score) ==
  IF i > Len(h) THEN best_index
  ELSE IF best_index # 0 /\ m[h[i]].score >= best_score
    THEN AStarHeapScanFirst(h, m, i + 1, best_index, best_score)
  ELSE AStarHeapScanFirst(h, m, i + 1, i, m[h[i]].score)

\* The scan of AStarHeapExtractMin: the index (from 1) of the node taken.
\* best_index = 0 stands for null, with best_score = Infinity.
RECURSIVE AStarHeapScan(_, _, _, _, _)
AStarHeapScan(h, m, i, best_index, best_score) ==
  IF i > Len(h) THEN best_index
  ELSE IF best_index # 0 /\ m[h[i]].score > best_score
    THEN AStarHeapScan(h, m, i + 1, best_index, best_score)
  ELSE AStarHeapScan(h, m, i + 1, i, m[h[i]].score)

AStarHeapRemoveNoPop(h, best_index) == [h EXCEPT ![best_index] = h[Len(h)]]

\* The frontier after heap.pop() and the move of the popped node into the hole.
AStarHeapRemove(h, best_index) ==
  LET popped == h[Len(h)]
      rest == SubSeq(h, 1, Len(h) - 1)
  IN  IF best_index <= Len(rest) THEN [rest EXCEPT ![best_index] = popped]
      ELSE rest

AStarHeapExtractMin(h, m) ==
  LET best_index == AStarHeapScan(h, m, 1, 0, 0)
  IN  [node |-> h[best_index], heap |-> AStarHeapRemove(h, best_index)]

\* The classifier the caller passes: the cell's status inside the grid,
\* BLOCKED outside of it.
Check(st, p) == IF p \in DOMAIN st THEN st[p] ELSE "BLOCKED"

AStarLineFreeNotBlocked(line, st) ==
  \A i \in 2..(Len(line) - 1) : Check(st, line[i]) # "BLOCKED"

\* The points free calls the classifier with: the interior cells of the line
\* up to the first one that does not classify as FREE.
AStarLineCalls(line, st) ==
  {line[i] : i \in {j \in 2..(Len(line) - 1) :
                      \A k \in 2..(j - 1) : Check(st, line[k]) = "FREE"}}

\* free: every interior cell of the line classifies as FREE.
AStarLineFree(line, st) ==
  \A i \in 2..(Len(line) - 1) : Check(st, line[i]) = "FREE"

RECURSIVE AStarWalkNoReverse(_, _, _, _)
AStarWalkNoReverse(m, current, path, steps) ==
  IF steps > Cardinality(DOMAIN m) THEN [kind |-> "diverges", path |-> <<>>]
  ELSE IF m[current].parent = NoNode THEN [kind |-> "path", path |-> path]
  ELSE AStarWalkNoReverse(m, m[current].parent, Append(path, m[current].point),
                          steps + 1)

\* The walk over the parent links.  A walk that has taken more steps than
\* there are nodes is in a cycle of parent links and never ends.
RECURSIVE AStarWalk(_, _, _, _)
AStarWalk(m, current, path, steps) ==
  IF steps > Cardinality(DOMAIN m) THEN [kind |-> "diverges", path |-> <<>>]
  ELSE IF m[current].parent = NoNode
    THEN [kind |-> "path", path |-> Reverse(path)]
  ELSE AStarWalk(m, m[current].parent, Append(path, m[current].point), steps + 1)

AStarDistanceNoDiagonal(prev_distance, i, test) ==
  prev_distance + AStarUnitCost
    + (IF test = "OCCUPIED" THEN AStarOccupiedPenalty ELSE 0)

AStarDistance(prev_distance, i, test) ==
  prev_distance + AStarUnitCost
    + (IF i % 2 # 0 THEN AStarDiagonalPenalty ELSE 0)
    + (IF test = "OCCUPIED" THEN AStarOccupiedPenalty ELSE 0)

AStarReachKeepsScore(s, prev, next, forward_bit, distance, line) ==
  IF next \in DOMAIN s.map
  THEN LET existing == s.map[next]
           bits == BitOr(existing.bits, forward_bit)
       IN  IF existing.distance <= distance
           THEN [s EXCEPT !.map[next].bits = bits]
           ELSE [s EXCEPT !.map[next] =
                   AStarNode(next, prev, bits, distance, existing.score)]
  ELSE [s EXCEPT
          !.map = s.map @@
                    (next :> AStarNode(next, prev, forward_bit, distance,
                                       distance + AStarHeuristic(next, line))),
          !.heap = Append(s.heap, next)]

AStarReachBitOnRelax(s, prev, next, forward_bit, distance, line) ==
  IF next \in DOMAIN s.map
  THEN LET existing == s.map[next]
       IN  IF existing.distance <= distance THEN s
           ELSE [s EXCEPT !.map[next] =
                   AStarNode(next, prev, BitOr(existing.bits, forward_bit),
                             distance,
                             existing.score + (distance - existing.distance))]
  ELSE [s EXCEPT
          !.map = s.map @@
                    (next :> AStarNode(next, prev, forward_bit, distance,
                                       distance + AStarHeuristic(next, line))),
          !.heap = Append(s.heap, next)]

\* The body of `if (existing) ... else ...` for the neighbour next.
AStarReach(s, prev, next, forward_bit, distance, line) ==
  IF next \in DOMAIN s.map
  THEN LET existing == s.map[next]
           bits == BitOr(existing.bits, forward_bit)
       IN  IF existing.distance <= distance
           THEN [s EXCEPT !.map[next].bits = bits]
           ELSE [s EXCEPT !.map[next] =
                   AStarNode(next, prev, bits, distance,
                             existing.score + (distance - existing.distance))]
  ELSE [s EXCEPT
          !.map = s.map @@
                    (next :> AStarNode(next, prev, forward_bit, distance,
                                       distance + AStarHeuristic(next, line))),
          !.heap = Append(s.heap, next)]

AStarTest(next, tgt, st) ==
  IF PointEqual(next, tgt) THEN "FREE" ELSE Check(st, next)

AStarCallAlways(s, next, tgt) == [s EXCEPT !.calls = @ \cup {next}]

\* The call of the classifier that AStarTest makes, if it makes one.
AStarCall(s, next, tgt) ==
  IF PointEqual(next, tgt) THEN s ELSE [s EXCEPT !.calls = @ \cup {next}]

AStarVisitThroughWalls(s, prev, i, next, test, line) ==
  AStarReach(s, prev, next, 2 ^ i,
             AStarDistance(s.map[prev].distance, i, test), line)

AStarVisit(s, prev, i, next, test, line) ==
  IF test = "BLOCKED" THEN s
  ELSE AStarReach(s, prev, next, 2 ^ i,
                  AStarDistance(s.map[prev].distance, i, test), line)

ReverseBitForward(i) == 2 ^ i

ReverseBit(i) == 2 ^ ((i + (kNumDirections \div 2)) % kNumDirections)

\* The loop over the directions, from direction i on; s holds map, heap and
\* the points the classifier has been called with.
RECURSIVE AStarExpandLoop(_, _, _, _, _, _)
AStarExpandLoop(i, s, prev, tgt, st, line) ==
  IF i >= kNumDirections THEN s
  ELSE IF BitAnd(s.map[prev].bits, ReverseBit(i)) # 0
    THEN AStarExpandLoop(i + 1, s, prev, tgt, st, line)
  ELSE AStarExpandLoop(
         i + 1,
         AStarVisit(AStarCall(s, PointAdd(prev, DirectionAll[i + 1]), tgt),
                    prev, i, PointAdd(prev, DirectionAll[i + 1]),
                    AStarTest(PointAdd(prev, DirectionAll[i + 1]), tgt, st), line),
         prev, tgt, st, line)

\* ------------------------------------------------------------------------
\* Idle values of each component's variables.

IdlePoint == pin = <<>> /\ pout = <<>>
IdleLOS == la = 0 /\ lb = 0 /\ lfwd = <<>> /\ lbwd = <<>>
IdleAStar ==
  /\ source = 0 /\ target = 0 /\ status = <<>> /\ los = <<>> /\ map = <<>>
  /\ heap = <<>> /\ record = <<>> /\ result = <<>> /\ checked = {}
IdleHashTable ==
  /\ size = 0 /\ capacity = 0 /\ max_size = 0 /\ keys = <<>> /\ vals = <<>>
  /\ shadow = <<>> /\ call = <<>>
IdleMatrix == mxsize = 0 /\ mxdata = <<>> /\ mxshadow = <<>> /\ mxcall = <<>>

\* ------------------------------------------------------------------------
\* SpecPoint: Point.make applied to two coordinate pairs, then decoded.

PointCoords ==
  (-16384 .. (-16384 + PointEdge)) \cup ((-PointEdge) .. PointEdge)
    \cup ((16384 - PointEdge) .. 16384)

InitPoint ==
  /\ pc = "point"
  /\ pin \in PointCoords \X PointCoords \X PointCoords \X PointCoords
  /\ pout = <<>>
  /\ IdleLOS
  /\ IdleHashTable
  /\ IdleAStar
  /\ IdleMatrix

\* a = Point.make(x1, y1); b = Point.make(x2, y2); then Point.x(a),
\* Point.y(a), Point.key(a), Point.key(b), and Point.add(a, b),
\* Point.sub(a, b) and Point.sub(Point.add(a, b), b) with their coordinates.
PointRoundTrip ==
  /\ pc = "point"
  /\ LET a == PointMake(pin[1], pin[2])
         b == PointMake(pin[3], pin[4])
     IN  pout' = [a |-> a, b |-> b, x |-> PointX(a), y |-> PointY(a),
                  ka |-> PointKey(a), kb |-> PointKey(b),
                  sx |-> PointX(PointAdd(a, b)), sy |-> PointY(PointAdd(a, b)),
                  dx |-> PointX(PointSub(a, b)), dy |-> PointY(PointSub(a, b)),
                  back |-> PointSub(PointAdd(a, b), b)]
  /\ pc' = "point_done"
  /\ UNCHANGED <<pin, losVars, htVars, asVars, mxVars>>

NextPoint == PointRoundTrip

SpecPoint == InitPoint /\ [][NextPoint]_vars

\* ------------------------------------------------------------------------
\* SpecLOS: LOS applied to a pair of points in both orders.

LosCoords == (-LosRadius) .. LosRadius
LosPoints == {PointMake(x, y) : x \in LosCoords, y \in LosCoords}

InitLOS ==
  /\ pc = "los"
  /\ la \in LosPoints
  /\ lb \in LosPoints
  /\ lfwd = <<>>
  /\ lbwd = <<>>
  /\ IdlePoint
  /\ IdleHashTable
  /\ IdleAStar
  /\ IdleMatrix

LOSBothWays ==
  /\ pc = "los"
  /\ lfwd' = LOS(la, lb)
  /\ lbwd' = LOS(lb, la)
  /\ pc' = "los_done"
  /\ UNCHANGED <<ptVars, la, lb, htVars, asVars, mxVars>>

NextLOS == LOSBothWays

SpecLOS == InitLOS /\ [][NextLOS]_vars

\* ------------------------------------------------------------------------
\* SpecDirection: from a point p, one step in the direction of index i and
\* one step in the direction of index (i + 4) % 8, as AStar pairs them, with
\* the eight neighbours of p that Direction.all gives.

InitDirection ==
  /\ pc = "direction"
  /\ pin \in LosCoords \X LosCoords \X (0..(kNumDirections - 1))
  /\ pout = <<>>
  /\ IdleLOS
  /\ IdleHashTable
  /\ IdleAStar
  /\ IdleMatrix

DirectionStep ==
  /\ pc = "direction"
  /\ LET p == PointMake(pin[1], pin[2])
         d == DirectionAll[pin[3] + 1]
         r == DirectionAll[((pin[3] + (kNumDirections \div 2)) % kNumDirections) + 1]
     IN  pout' = [p |-> p, dx |-> PointX(d), dy |-> PointY(d),
                  sum |-> PointAdd(d, r),
                  next |-> PointAdd(p, d),
                  back |-> PointAdd(PointAdd(p, d), r),
                  all |-> [k \in 1..Len(DirectionAll) |->
                             PointAdd(p, DirectionAll[k])]]
  /\ pc' = "direction_done"
  /\ UNCHANGED <<pin, losVars, htVars, asVars, mxVars>>

NextDirection == DirectionStep

SpecDirection == InitDirection /\ [][NextDirection]_vars

\* ------------------------------------------------------------------------
\* SpecHashTable: one table, built with some capacity hint, then any
\* sequence of get, set and remove calls with keys in -MaxNegKey..MaxKey.  A
\* call that diverges leaves the program in its loop for good; a call that
\* throws is caught by the caller, who goes on using the table.

HTKeys == 0..MaxKey
HTNegKeys == (-MaxNegKey)..(-1)
HTCallKeys == HTNegKeys \cup HTKeys
HTVals == 0..MaxVal
HTTargets == (-1)..MaxTarget

Table == [size |-> size, capacity |-> capacity, max_size |-> max_size,
          keys |-> keys, vals |-> vals]

Absent == [kind |-> "null", val |-> 0]
Present(v) == [kind |-> "value", val |-> v]

SetTable(t) ==
  /\ size' = t.size
  /\ capacity' = t.capacity
  /\ max_size' = t.max_size
  /\ keys' = t.keys
  /\ vals' = t.vals

InitHashTable ==
  /\ pc = "table"
  /\ \E hint \in HTTargets :
       LET t == HTConstructor(hint)
       IN  /\ size = t.size
           /\ capacity = t.capacity
           /\ max_size = t.max_size
           /\ keys = t.keys
           /\ vals = t.vals
           /\ call = [op |-> "new", key |-> hint, resized |-> FALSE,
                      out |-> [kind |-> "ok", val |-> 0]]
  /\ shadow = [k \in HTKeys |-> Absent]
  /\ IdlePoint
  /\ IdleLOS
  /\ IdleAStar
  /\ IdleMatrix

\* Whether a set of key that led to table t put the key in a slot that held
\* a tombstone before the call.
SetReusedTombstone(t, key) ==
  /\ t.capacity = capacity
  /\ \E i \in 0..(capacity - 1) : t.keys[i] = key /\ keys[i] = kTombstone

CallGet(key) ==
  /\ pc = "table"
  /\ \E r \in {HTGet(Table, key)} :
         /\ call' = [op |-> "get", key |-> key, resized |-> FALSE,
                     out |-> r]
         /\ pc' = IF r.kind = "diverges" THEN "table_hung" ELSE "table"
  /\ UNCHANGED <<size, capacity, max_size, keys, vals, shadow, ptVars, losVars, asVars, mxVars>>

CallSet(key, val) ==
  /\ pc = "table"
  /\ \E r \in {HTSet(Table, key, val)} :
         /\ SetTable(r.t)
         /\ call' = [op |-> "set", key |-> key,
                     resized |-> r.t.capacity # capacity,
                     out |-> [kind |-> r.out,
                              val |-> IF SetReusedTombstone(r.t, key)
                                      THEN 1 ELSE 0]]
         /\ pc' = IF r.out = "diverges" THEN "table_hung" ELSE "table"
         /\ shadow' = IF r.out # "ok" THEN shadow
                      ELSE [shadow EXCEPT ![key] = Present(val)]
  /\ UNCHANGED <<ptVars, losVars, asVars, mxVars>>

CallRemove(key) ==
  /\ pc = "table"
  /\ \E r \in {HTRemove(Table, key)} :
         /\ SetTable(r.t)
         /\ call' = [op |-> "remove", key |-> key,
                     resized |-> r.t.capacity # capacity,
                     out |-> [kind |-> r.out, val |-> 0]]
         /\ pc' = IF r.out = "diverges" THEN "table_hung" ELSE "table"
         /\ shadow' = IF r.out # "ok" THEN shadow
                      ELSE [shadow EXCEPT ![key] = Absent]
  /\ UNCHANGED <<ptVars, losVars, asVars, mxVars>>

CallShow ==
  /\ pc = "table"
  /\ call' = [op |-> "show", key |-> 0, resized |-> FALSE,
              out |-> [kind |-> HTShow(Table), val |-> 0]]
  /\ UNCHANGED <<pc, size, capacity, max_size, keys, vals, shadow, ptVars, losVars, asVars, mxVars>>

NextHashTable ==
  \/ CallShow
  \/ \E key \in HTCallKeys : CallGet(key)
  \/ \E key \in HTCallKeys, val \in HTVals : CallSet(key, val)
  \/ \E key \in HTCallKeys : CallRemove(key)

SpecHashTable == InitHashTable /\ [][NextHashTable]_vars

\* ------------------------------------------------------------------------
\* SpecMatrix: one matrix of some size and initial value, then any sequence
\* of get, set, getOrNull and fill calls on points in and around the matrix.
\* A call that throws is caught by the caller, who goes on using the matrix.

MatrixSizes == {PointMake(w, h) : w \in 0..MatW, h \in 0..MatH}
MatrixPoints == {PointMake(x, y) : x \in (-1)..MatW, y \in (-1)..MatH}
MatrixValues == {"FREE", "BLOCKED"}

Matrix == [size |-> mxsize, data |-> mxdata]

\* The points of a matrix of size sz, by their coordinates.
MatrixCells(sz) ==
  {p \in MatrixPoints :
     PointX(p) \in 0..(PointX(sz) - 1) /\ PointY(p) \in 0..(PointY(sz) - 1)}

InitMatrix ==
  /\ pc = "matrix"
  /\ mxsize \in MatrixSizes
  /\ \E value \in MatrixValues :
       /\ mxdata = MatrixNew(mxsize, value).data
       /\ mxshadow = [p \in MatrixCells(mxsize) |-> value]
       /\ mxcall = [op |-> "new", point |-> mxsize,
                    out |-> [kind |-> "ok", val |-> value]]
  /\ IdlePoint
  /\ IdleLOS
  /\ IdleHashTable
  /\ IdleAStar

CallMatrixGet(p) ==
  /\ pc = "matrix"
  /\ mxcall' = [op |-> "get", point |-> p, out |-> MatrixGet(Matrix, p)]
  /\ UNCHANGED <<pc, mxsize, mxdata, mxshadow, ptVars, losVars, htVars, asVars>>

CallMatrixGetOrNull(p) ==
  /\ pc = "matrix"
  /\ mxcall' = [op |-> "getOrNull", point |-> p,
                out |-> MatrixGetOrNull(Matrix, p)]
  /\ UNCHANGED <<pc, mxsize, mxdata, mxshadow, ptVars, losVars, htVars, asVars>>

CallMatrixSet(p, value) ==
  /\ pc = "matrix"
  /\ \E r \in {MatrixSet(Matrix, p, value)} :
       /\ mxdata' = r.m.data
       /\ mxcall' = [op |-> "set", point |-> p,
                     out |-> [kind |-> r.out, val |-> value]]
       /\ mxshadow' = IF r.out = "ok" THEN [mxshadow EXCEPT ![p] = value]
                      ELSE mxshadow
  /\ UNCHANGED <<pc, mxsize, ptVars, losVars, htVars, asVars>>

CallMatrixFill(value) ==
  /\ pc = "matrix"
  /\ mxdata' = MatrixFill(Matrix, value).data
  /\ mxcall' = [op |-> "fill", point |-> mxsize,
                out |-> [kind |-> "ok", val |-> value]]
  /\ mxshadow' = [p \in DOMAIN mxshadow |-> value]
  /\ UNCHANGED <<pc, mxsize, ptVars, losVars, htVars, asVars>>

NextMatrix ==
  \/ \E p \in MatrixPoints : CallMatrixGet(p)
  \/ \E p \in MatrixPoints : CallMatrixGetOrNull(p)
  \/ \E p \in MatrixPoints, value \in MatrixValues : CallMatrixSet(p, value)
  \/ \E value \in MatrixValues : CallMatrixFill(value)

SpecMatrix == InitMatrix /\ [][NextMatrix]_vars

\* ------------------------------------------------------------------------
\* SpecAStar: one call of AStar, for every source and target in the grid and
\* every classifier within the bounds; one step per iteration of the search.

Cells == {PointMake(x, y) : x \in 0..(GridW - 1), y \in 0..(GridH - 1)}

\* The classifiers on a grid: at most MaxBlocked cells are BLOCKED and at most
\* MaxOccupied are OCCUPIED, the others are FREE.
Classifiers(cells) ==
  {[p \in cells |-> IF p \in B THEN "BLOCKED"
                    ELSE IF p \in O THEN "OCCUPIED" ELSE "FREE"] :
     B \in {X \in SUBSET cells : Cardinality(X) <= MaxBlocked},
     O \in {X \in SUBSET cells : Cardinality(X) <= MaxOccupied}}

NoResult == [kind |-> "none", path |-> <<>>]

InitAStar ==
  /\ pc = "astar"
  /\ source \in Cells
  /\ target \in Cells
  /\ status \in Classifiers(Cells)
  /\ los = <<>>
  /\ map = <<>>
  /\ heap = <<>>
  /\ record = <<>>
  /\ result = NoResult
  /\ checked = {}
  /\ IdlePoint
  /\ IdleLOS
  /\ IdleHashTable
  /\ IdleMatrix

\* The line is clear: return it without the source.
AStarShortcut ==
  /\ pc = "astar"
  /\ \E line \in {LOS(source, target)} :
       /\ AStarLineFree(line, status)
       /\ los' = line
       /\ checked' = AStarLineCalls(line, status)
       /\ result' = [kind |-> "path", path |-> SubSeq(line, 2, Len(line))]
  /\ pc' = "astar_done"
  /\ UNCHANGED <<source, target, status, map, heap, record, ptVars, losVars, htVars, mxVars>>

\* The line is not clear: register the source node and push it.
AStarSeed ==
  /\ pc = "astar"
  /\ \E line \in {LOS(source, target)} :
       /\ ~AStarLineFree(line, status)
       /\ los' = line
       /\ checked' = AStarLineCalls(line, status)
       /\ map' = (PointKey(source) :>
                    AStarNode(source, NoNode, 0, 0, AStarHeuristic(source, line)))
  /\ heap' = <<PointKey(source)>>
  /\ pc' = "astar_search"
  /\ UNCHANGED <<source, target, status, record, result, ptVars, losVars, htVars, mxVars>>

\* An iteration that extracts the target: return the walk over the parents.
AStarReturnPath ==
  /\ pc = "astar_search"
  /\ heap # <<>>
  /\ \E x \in {AStarHeapExtractMin(heap, map)} :
       /\ PointEqual(map[x.node].point, target)
       /\ heap' = x.heap
       /\ record' = Append(record, map[x.node].point)
       /\ result' = AStarWalk(map, x.node, <<>>, 0)
  /\ pc' = "astar_done"
  /\ UNCHANGED <<source, target, status, los, map, checked, ptVars, losVars, htVars, mxVars>>

\* An iteration that extracts another node: visit its neighbours.
AStarExpand ==
  /\ pc = "astar_search"
  /\ heap # <<>>
  /\ \E x \in {AStarHeapExtractMin(heap, map)} :
       /\ ~PointEqual(map[x.node].point, target)
       /\ record' = Append(record, map[x.node].point)
       /\ \E s \in {AStarExpandLoop(0, [map |-> map, heap |-> x.heap,
                                        calls |-> checked],
                                    x.node, target, status, los)} :
            /\ map' = s.map
            /\ heap' = s.heap
            /\ checked' = s.calls
  /\ UNCHANGED <<pc, source, target, status, los, result, ptVars, losVars, htVars, mxVars>>

AStarNoPathAsserts ==
  /\ pc = "astar_search"
  /\ heap = <<>>
  /\ result' = [kind |-> "throws", path |-> <<>>]
  /\ pc' = "astar_done"
  /\ UNCHANGED <<source, target, status, los, map, heap, record, checked, ptVars, losVars, htVars, mxVars>>

\* The frontier is empty: return null.
AStarNoPath ==
  /\ pc = "astar_search"
  /\ heap = <<>>
  /\ result' = [kind |-> "null", path |-> <<>>]
  /\ pc' = "astar_done"
  /\ UNCHANGED <<source, target, status, los, map, heap, record, checked, ptVars, losVars, htVars, mxVars>>

NextAStar ==
  \/ AStarShortcut
  \/ AStarSeed
  \/ AStarReturnPath
  \/ AStarExpand
  \/ AStarNoPath

SpecAStar == InitAStar /\ [][NextAStar]_vars

\* ------------------------------------------------------------------------
\* SpecAStarWide: one call of AStar across a wider grid, from a source in
\* the first column to a target in the last one, for every classifier within
\* the bounds; the steps are those of SpecAStar.

WideCells == {PointMake(x, y) : x \in 0..(WideW - 1), y \in 0..(WideH - 1)}

InitAStarWide ==
  /\ pc = "astar"
  /\ source \in {p \in WideCells : PointX(p) = 0}
  /\ target \in {p \in WideCells : PointX(p) = WideW - 1}
  /\ status \in Classifiers(WideCells)
  /\ los = <<>>
  /\ map = <<>>
  /\ heap = <<>>
  /\ record = <<>>
  /\ result = NoResult
  /\ checked = {}
  /\ IdlePoint
  /\ IdleLOS
  /\ IdleHashTable
  /\ IdleMatrix

SpecAStarWide == InitAStarWide /\ [][NextAStar]_vars

\* ------------------------------------------------------------------------
\* Claims about AStar.

Adjacent8(p, q) ==
  Max(Abs(PointX(p) - PointX(q)), Abs(PointY(p) - PointY(q))) = 1

Returned == pc = "astar_done" /\ result.kind = "path"
Searched == DOMAIN map # {}

\* C2 as stated: a returned path contains no cell the classifier reports as
\* BLOCKED.
C2_NoBlockedCell ==
  Returned =>
    \A i \in 1..Len(result.path) : Check(status, result.path[i]) # "BLOCKED"

\* C2 amended: a returned path contains no cell the classifier reports as
\* BLOCKED, except that its last cell, the target, may be one.
C2_NoBlockedCellBeforeTarget ==
  Returned =>
    \A i \in 1..Len(result.path) :
      Check(status, result.path[i]) = "BLOCKED" =>
        (i = Len(result.path) /\ result.path[i] = target)

\* C2 witness: a search around a BLOCKED cell returned a path of three cells
\* or more that ends on a BLOCKED target.
C2_Witness ==
  /\ Returned
  /\ Searched
  /\ Len(result.path) >= 3
  /\ Check(status, target) = "BLOCKED"
  /\ \E p \in Cells : p # target /\ status[p] = "BLOCKED"

\* C3: a returned path with source # target excludes the source, starts on
\* a neighbour of the source, steps from neighbour to neighbour, and ends on
\* the target.
C3_Connected ==
  (Returned /\ source # target) =>
    LET path == result.path
    IN  /\ Len(path) >= 1
        /\ \A i \in 1..Len(path) : path[i] # source
        /\ Adjacent8(source, path[1])
        /\ \A i \in 1..(Len(path) - 1) : Adjacent8(path[i], path[i + 1])
        /\ path[Len(path)] = target

\* C3 witness: a path of three cells or more found by the search (not the
\* line), whose target is not on the line's straight route.
C3_Witness ==
  /\ Returned
  /\ Searched
  /\ Len(result.path) >= 3
  /\ Len(result.path) > Len(los) - 1

InteriorAllFree ==
  LET line == LOS(source, target)
  IN  \A i \in 2..(Len(line) - 1) : Check(status, line[i]) = "FREE"

\* C4: when every interior cell of LOS(source, target) is FREE, AStar returns
\* that line without its first cell and does not search, whatever the
\* classifier says about source and target; when an interior cell is not
\* FREE, the search runs.
C4_Shortcut ==
  /\ pc = "astar_done" =>
       IF InteriorAllFree
       THEN /\ result = [kind |-> "path", path |-> Tail(LOS(source, target))]
            /\ ~Searched
            /\ record = <<>>
       ELSE Searched /\ record # <<>>
  /\ pc = "astar_search" => ~InteriorAllFree

\* C4 witness: a line of three cells or more returned by the shortcut with
\* both the source and the target BLOCKED.
C4_Witness ==
  /\ pc = "astar_done"
  /\ ~Searched
  /\ Len(result.path) >= 2
  /\ status[source] = "BLOCKED"
  /\ status[target] = "BLOCKED"

\* C4 second witness case: an OCCUPIED interior cell sent AStar to the search.
C4_SearchedPastOccupied ==
  /\ pc = "astar_done"
  /\ Searched
  /\ \E i \in 2..(Len(los) - 1) : status[los[i]] = "OCCUPIED"

\* The cells a chain of 8-adjacent steps from the source through cells that
\* are not BLOCKED leads to (the source counts whatever its own status).
CellNeighbours == [p \in Cells |-> {q \in Cells : Adjacent8(p, q)}]

ReachStep(R) ==
  R \cup {q \in UNION {CellNeighbours[p] : p \in R} : status[q] # "BLOCKED"}

RECURSIVE ReachGrow(_, _)
ReachGrow(R, S) == IF S = R THEN R ELSE ReachGrow(S, ReachStep(S))

ReachClosure(R) == ReachGrow(R, ReachStep(R))

\* The target ends such a chain (whatever its own status).
TargetReachable ==
  \/ target = source
  \/ ReachClosure({source}) \cap CellNeighbours[target] # {}

\* C5: when no chain of 8-adjacent steps through non-BLOCKED cells leads from
\* the source to the target, AStar terminates and returns null: until it has
\* returned it always has a next step to take (nothing throws), it takes at
\* most one iteration per cell of the grid (each iteration appends one point
\* to record), and what it returns is null.
C5_UnreachableReturnsNull ==
  (pc \in {"astar", "astar_search", "astar_done"} /\ ~TargetReachable) =>
    /\ pc # "astar_done" => ENABLED NextAStar
    /\ Len(record) <= Cardinality(Cells)
    /\ pc = "astar_done" => result.kind = "null"

\* C5 witness: the search ran dry after extracting more than one node.
C5_Witness ==
  /\ pc = "astar_done"
  /\ result.kind = "null"
  /\ ~TargetReachable
  /\ Len(record) >= 2
  /\ heap = <<>>

\* C11: when a chain of 8-adjacent steps through cells that are not BLOCKED
\* leads from the source to the target (whatever the target's own status),
\* AStar terminates and returns a path: it takes at most one iteration per
\* cell of the grid (each iteration appends one point to record), the
\* frontier does not run dry before the target is extracted, and what it
\* returns is a path, not null.
C11_ReachableReturnsPath ==
  (pc \in {"astar", "astar_search", "astar_done"} /\ TargetReachable) =>
    /\ Len(record) <= Cardinality(Cells)
    /\ pc = "astar_search" => heap # <<>>
    /\ pc = "astar_done" => result.kind = "path"

\* C11 witness: the middle row is a wall of BLOCKED cells with a single gap,
\* source and target lie on opposite sides of it, and the search returned a
\* path that goes through the gap.
C11_Witness ==
  /\ Returned
  /\ Searched
  /\ PointY(source) = 0
  /\ PointY(target) = 2
  /\ \E gap \in {p \in Cells : PointY(p) = 1} :
       /\ status[gap] # "BLOCKED"
       /\ \A p \in Cells : (PointY(p) = 1 /\ p # gap) => status[p] = "BLOCKED"
       /\ \E i \in 1..Len(result.path) : result.path[i] = gap

\* The points extracted from the frontier so far, and those extracted
\* before the node n was (all of them while n is still in the frontier).
Extracted == {record[k] : k \in 1..Len(record)}

ExtractedBefore(n) ==
  IF n \in Extracted
  THEN {record[k] : k \in 1..((CHOOSE j \in 1..Len(record) : record[j] = n) - 1)}
  ELSE Extracted

\* The reverse bit of direction i is set on a node exactly when its
\* neighbour in direction i was extracted before it.
BitsMatchExtracted ==
  \A n \in DOMAIN map : \A i \in 0..(kNumDirections - 1) :
    (BitAnd(map[n].bits, ReverseBit(i)) # 0) <=>
      (PointAdd(n, DirectionAll[i + 1]) \in ExtractedBefore(n))

\* C15: at every iteration of the search, for the node N that is extracted
\* and expanded, direction i is skipped (the reverse bit of i is set on N)
\* if and only if the neighbour N + Direction.all[i] was extracted earlier;
\* and no step changes the distance, score, parent or bits of a node that
\* has been extracted.
C15_PruningIsPopped ==
  [][/\ pc' = "astar_search" => BitsMatchExtracted'
     /\ \A n \in Extracted : map'[n] = map[n]]_vars

\* C15 witness: the search is under way, and a node was extracted that had
\* two neighbours extracted before it, both marked by their reverse bits.
C15_Witness ==
  /\ pc = "astar_search"
  /\ \E n \in Extracted : \E i, j \in 0..(kNumDirections - 1) :
       /\ i # j
       /\ PointAdd(n, DirectionAll[i + 1]) \in ExtractedBefore(n)
       /\ PointAdd(n, DirectionAll[j + 1]) \in ExtractedBefore(n)
       /\ BitAnd(map[n].bits, ReverseBit(i)) # 0
       /\ BitAnd(map[n].bits, ReverseBit(j)) # 0

\* The parent links lead from node n to the source in at most steps steps.
RECURSIVE ChainReachesSource(_, _)
ChainReachesSource(n, steps) ==
  IF n = PointKey(source) THEN TRUE
  ELSE IF steps = 0 \/ map[n].parent = NoNode THEN FALSE
  ELSE ChainReachesSource(map[n].parent, steps - 1)

\* The cost of the step from p to the adjacent q: 16, plus 2 for a diagonal
\* step, plus 64 when penalty holds.
StepCost(p, q, penalty) ==
  16 + (IF PointX(p) # PointX(q) /\ PointY(p) # PointY(q) THEN 2 ELSE 0)
     + (IF penalty THEN 64 ELSE 0)

\* The cost of the path from p on, charging the penalty for the cells of occ.
RECURSIVE PathCost(_, _, _)
PathCost(p, path, occ) ==
  IF path = <<>> THEN 0
  ELSE StepCost(p, Head(path), Head(path) \in occ)
         + PathCost(Head(path), Tail(path), occ)

\* The parent links form a tree rooted at the source, with distances that add
\* up the step costs, the penalty of 64 being charged for the cells of occ.
ParentTree(occ) ==
  Searched =>
    /\ PointKey(source) \in DOMAIN map
    /\ \A n \in DOMAIN map :
         /\ map[n].parent = NoNode <=> n = PointKey(source)
         /\ ChainReachesSource(n, Cardinality(DOMAIN map))
         /\ n # PointKey(source) =>
              /\ map[n].parent \in DOMAIN map
              /\ Adjacent8(map[map[n].parent].point, map[n].point)
              /\ map[n].distance =
                   map[map[n].parent].distance
                     + StepCost(map[map[n].parent].point, map[n].point,
                                map[n].point \in occ)
    /\ Returned =>
         map[PointKey(target)].distance = PathCost(source, result.path, occ)

\* C16 as stated: at every point of the search the source is the only node
\* without a parent, every other node is 8-adjacent to its parent, the parent
\* links lead from every node to the source, each node's distance is its
\* parent's distance plus the step cost (16, plus 2 for a diagonal step, plus
\* 64 if the node's cell is OCCUPIED), and the distance of the target node
\* is the cost of the returned path.
C16_ParentTree ==
  ParentTree({p \in DOMAIN status : status[p] = "OCCUPIED"})

\* C16 amended: the same, the 64 being charged if the node's cell is
\* OCCUPIED and is not the target (the target is never classified).
C16_ParentTreeTargetFree ==
  ParentTree({p \in DOMAIN status : status[p] = "OCCUPIED" /\ p # target})

\* C16 witness: a search returned a path of two steps or more to an OCCUPIED
\* target, whose distance carries no penalty.
C16_Witness ==
  /\ Returned
  /\ Searched
  /\ status[target] = "OCCUPIED"
  /\ Len(result.path) >= 2
  /\ map[PointKey(target)].distance < 64

\* C16 second witness case: a returned path goes over an OCCUPIED cell, with
\* a diagonal step, and the distance of the target carries the penalty.
C16_PaidThePenalty ==
  /\ Returned
  /\ Searched
  /\ \E i \in 1..(Len(result.path) - 1) : status[result.path[i]] = "OCCUPIED"
  /\ map[PointKey(target)].distance > 64 + 32
  /\ map[PointKey(target)].distance % 16 # 0

\* What an iteration of the search did to the frontier, seen from outside:
\* the node appended to record is the one extracted.  It has the minimum
\* score of the frontier; among the nodes with that score it is the one at
\* the lowest index (first = TRUE) or at the highest (first = FALSE); and
\* the frontier afterwards is the old one without its last slot, with the old
\* last element in the slot of the extracted node (followed by the nodes the
\* iteration pushed).
ExtractedRight(first) ==
  (pc = "astar_search" /\ heap # <<>>) =>
    LET node == PointKey(record'[Len(record')])
        at == {j \in 1..Len(heap) : heap[j] = node}
        ties == {j \in 1..Len(heap) : map[heap[j]].score = map[node].score}
    IN  /\ Len(record') = Len(record) + 1
        /\ Cardinality(at) = 1
        /\ \A j \in 1..Len(heap) : map[heap[j]].score >= map[node].score
        /\ \A k \in at :
             /\ \A j \in ties : IF first THEN k <= j ELSE k >= j
             /\ Len(heap') >= Len(heap) - 1
             /\ \A j \in 1..(Len(heap) - 1) :
                  heap'[j] = IF j = k THEN heap[Len(heap)] ELSE heap[j]

\* C17 as stated: AStarHeapExtractMin returns a node of minimum score, among
\* several nodes with the minimum score the one at the lowest index, and
\* removes exactly that node, moving the last element into its slot.
C17_ExtractFirstMin == [][ExtractedRight(TRUE)]_vars

\* C17 amended: AStarHeapExtractMin returns a node of minimum score, among
\* several nodes with the minimum score the one at the highest index (the
\* last one met in the forward scan), and removes exactly that node, moving
\* the last element into its slot.
C17_ExtractLastMin == [][ExtractedRight(FALSE)]_vars

\* C17 witness: the node last extracted had the same score as a node that
\* was in the frontier with it and still is there (a node the iteration
\* pushed or relaxed has the extracted node as its parent).
C17_Witness ==
  /\ pc = "astar_search"
  /\ Len(record) >= 2
  /\ \E j \in 1..Len(heap) :
       /\ map[heap[j]].score = map[PointKey(record[Len(record)])].score
       /\ map[heap[j]].parent # PointKey(record[Len(record)])

\* C18: AStar never calls the classifier with the source or with the target,
\* neither in the test of the line nor at any expansion of the search.
C18_EndpointsNeverClassified ==
  pc \in {"astar", "astar_search", "astar_done"} =>
    (source \notin checked /\ target \notin checked)

\* C18 witness: a search that extracted three nodes or more returned a path,
\* having classified a neighbour of the source and a neighbour of the target.
C18_Witness ==
  /\ Returned
  /\ Searched
  /\ Len(record) >= 3
  /\ \E p \in checked : Adjacent8(p, source)
  /\ \E p \in checked : Adjacent8(p, target)

\* The state of the record sink and of the frontier: record starts with the
\* source, holds no point twice and the target at most as its last entry; no
\* node is in the frontier twice, or in the frontier after its extraction;
\* after a search that found a path the last entry is the target, and after
\* the shortcut record is empty.
RecordInOrder ==
  /\ record # <<>> => record[1] = source
  /\ \A j, k \in 1..Len(record) : record[j] = record[k] => j = k
  /\ \A j \in 1..(Len(record) - 1) : record[j] # target
  /\ \A j, k \in 1..Len(heap) : heap[j] = heap[k] => j = k
  /\ \A j \in 1..Len(heap) : map[heap[j]].point \notin Extracted
  /\ (Returned /\ Searched) => record[Len(record)] = target
  /\ (pc = "astar_done" /\ ~Searched) => record = <<>>

\* C19: every iteration of the search appends to record the point of the
\* node it takes out of the frontier, and nothing else is ever appended; the
\* source comes first, no point comes twice, the target comes last when the
\* search finds a path, and the shortcut appends nothing.
C19_RecordIsExtractionOrder ==
  [][/\ IF pc = "astar_search" /\ heap # <<>>
        THEN \E j \in 1..Len(heap) :
               /\ record' = Append(record, map[heap[j]].point)
               /\ \A k \in 1..Len(heap') : heap'[k] # heap[j]
        ELSE record' = record
     /\ RecordInOrder']_vars

\* C19 witness: a search returned a path after four extractions or more;
\* record starts with the source and ends with the target.
C19_Witness ==
  /\ Returned
  /\ Searched
  /\ Len(record) >= 4
  /\ record[1] = source
  /\ record[Len(record)] = target

\* C19 second witness case: the search ran dry; record holds the source and
\* more, not the target.
C19_RecordWithoutTarget ==
  /\ pc = "astar_done"
  /\ result.kind = "null"
  /\ Len(record) >= 3
  /\ \A j \in 1..Len(record) : record[j] # target

\* The score of every registered node is its distance plus the heuristic of
\* its point, and the distance of the source node is 0.
ScoreIsDistancePlusHeuristic ==
  pc \in {"astar_search", "astar_done"} =>
    /\ \A n \in DOMAIN map :
         map[n].score = map[n].distance + AStarHeuristic(map[n].point, los)
    /\ Searched => map[PointKey(source)].distance = 0

\* C21: at every point of the search, every node of the registry has
\* score = distance + heuristic(point); the source starts with distance 0;
\* and a step that changes the distance of a node lowers it, and lowers the
\* score of the node by the same amount.
C21_ScoreTracksDistance ==
  /\ []ScoreIsDistancePlusHeuristic
  /\ [][\A n \in DOMAIN map :
          map'[n].distance # map[n].distance =>
            /\ map'[n].distance < map[n].distance
            /\ map[n].score - map'[n].score =
                 map[n].distance - map'[n].distance]_vars

\* C21 witness: a node was relaxed: its parent was extracted after another
\* of its neighbours (which registered it first), and the node was not
\* extracted before its parent.
C21_Witness ==
  /\ pc \in {"astar_search", "astar_done"}
  /\ \E n \in DOMAIN map :
       /\ map[n].parent # NoNode
       /\ \E q \in ExtractedBefore(map[map[n].parent].point) :
            /\ Adjacent8(q, map[n].point)
            /\ q # target
       /\ map[n].score = map[n].distance + AStarHeuristic(map[n].point, los)

\* ------------------------------------------------------------------------
\* Claims about Point.

\* C9 as stated: for -16384 <= x, y <= 16384, Point.x(Point.make(x, y)) = x,
\* Point.y(Point.make(x, y)) = y, and two distinct pairs get distinct keys.
C9_RoundTripClosedRange ==
  pc = "point_done" =>
    /\ pout.x = pin[1]
    /\ pout.y = pin[2]
    /\ (<<pin[1], pin[2]>> # <<pin[3], pin[4]>> => pout.ka # pout.kb)

\* C9 amended: the same, for -16384 <= x <= 16383 and -16384 <= y <= 16384
\* (x + kOffset has to fit the 15 low bits).
C9_RoundTripHalfOpenX ==
  (pc = "point_done" /\ pin[1] <= 16383 /\ pin[3] <= 16383) =>
    /\ pout.x = pin[1]
    /\ pout.y = pin[2]
    /\ (<<pin[1], pin[2]>> # <<pin[3], pin[4]>> => pout.ka # pout.kb)

\* C9 witness: the largest covered x with the largest and the smallest y,
\* two distinct pairs, both packed and decoded.
C9_Witness ==
  /\ pc = "point_done"
  /\ pin = <<16383, 16384, 16383, -16384>>
  /\ pout.x = 16383
  /\ pout.y = 16384
  /\ pout.ka # pout.kb

\* The coordinates a point can hold: x + kOffset has to fit the 15 low bits.
RepresentableX(x) == -16384 <= x /\ x <= 16383
RepresentableY(y) == -16384 <= y /\ y <= 16384

\* C14: for points a and b, Point.add(a, b) decodes to (xa + xb, ya + yb)
\* when the sums are representable, Point.sub(a, b) decodes to
\* (xa - xb, ya - yb) when the differences are, also with negative
\* coordinates, and Point.sub(Point.add(a, b), b) = a.
C14_AddSub ==
  (/\ pc = "point_done"
   /\ RepresentableX(pin[1]) /\ RepresentableY(pin[2])
   /\ RepresentableX(pin[3]) /\ RepresentableY(pin[4])) =>
    /\ (RepresentableX(pin[1] + pin[3]) /\ RepresentableY(pin[2] + pin[4])) =>
         (pout.sx = pin[1] + pin[3] /\ pout.sy = pin[2] + pin[4])
    /\ (RepresentableX(pin[1] - pin[3]) /\ RepresentableY(pin[2] - pin[4])) =>
         (pout.dx = pin[1] - pin[3] /\ pout.dy = pin[2] - pin[4])
    /\ pout.back = pout.a

\* C14 witness: a = (-1, 1) and b = (1, -1) were added and subtracted.
C14_Witness ==
  /\ pc = "point_done"
  /\ pin = <<-1, 1, 1, -1>>
  /\ pout.sx = 0 /\ pout.sy = 0
  /\ pout.dx = -2 /\ pout.dy = 2
  /\ pout.back = pout.a

\* C14 second witness case: a sum that lands on the largest x and y.
C14_SumAtTheEdge ==
  /\ pc = "point_done"
  /\ pin = <<16383, 16383, 0, 1>>
  /\ pout.sx = 16383 /\ pout.sy = 16384

\* C22: Direction.all has 8 distinct unit steps; the steps at index i and at
\* index (i + 4) % 8 are opposite (their sum is the zero vector, and taking
\* one after the other leads back to the starting point); and the step at
\* index i is diagonal exactly when i is odd.
C22_DirectionOrder ==
  pc = "direction_done" =>
    /\ Len(pout.all) = 8
    /\ \A j, k \in 1..Len(pout.all) : pout.all[j] = pout.all[k] => j = k
    /\ \A k \in 1..Len(pout.all) :
         Max(Abs(PointX(pout.all[k]) - pin[1]),
             Abs(PointY(pout.all[k]) - pin[2])) = 1
    /\ Max(Abs(pout.dx), Abs(pout.dy)) = 1
    /\ pout.sum = PointMake(0, 0)
    /\ pout.back = pout.p
    /\ pout.next = pout.all[pin[3] + 1]
    /\ (pin[3] % 2 # 0) <=> (pout.dx # 0 /\ pout.dy # 0)

\* C22 witness: from (0, 0) the step of index 7 (nw) led to (-1, -1) and the
\* step of index 3 (se) led back.
C22_Witness ==
  /\ pc = "direction_done"
  /\ pin = <<0, 0, 7>>
  /\ pout.dx = -1 /\ pout.dy = -1
  /\ pout.next = PointMake(-1, -1)
  /\ pout.back = PointMake(0, 0)

\* ------------------------------------------------------------------------
\* Claims about HashTable.

\* C1 as stated: get(k) returns the value of the most recent set(k, v) not
\* followed by remove(k), and absent if k was never set or was removed since.
C1_GetReadsTheMap ==
  (pc \in {"table", "table_hung"} /\ call.op = "get" /\ call.key >= 0) =>
    call.out = shadow[call.key]

\* C7 as stated: every get, set and remove call with a non-negative key
\* terminates, in every table state a sequence of such calls reaches.
C7_CallsTerminate ==
  pc \in {"table", "table_hung"} => call.out.kind # "diverges"

IsPowerOfTwo(n) == \E e \in 0..30 : n = 2 ^ e

\* C8: capacity is a power of two >= 4 (after construction the smallest one
\* >= the hint), keys and vals have length capacity, max_size is
\* 0.75 * capacity, and 0 <= size <= max_size.
C8_Structure ==
  pc \in {"table", "table_hung"} =>
    /\ IsPowerOfTwo(capacity)
    /\ capacity >= 4
    /\ DOMAIN keys = 0..(capacity - 1)
    /\ DOMAIN vals = 0..(capacity - 1)
    /\ 4 * max_size = 3 * capacity
    /\ 0 <= size
    /\ size <= max_size
    /\ (call.op = "new" =>
          /\ capacity >= call.key
          /\ (capacity > 4 => capacity \div 2 < call.key))

\* C8 witness: a remove that shrank the table from capacity 8 to capacity 4
\* and then took out one of the two keys it held.
C8_Witness ==
  /\ pc = "table"
  /\ call.op = "remove"
  /\ call.resized
  /\ capacity = 4
  /\ size = 0
  /\ \E i \in 0..3 : keys[i] = kTombstone

\* C12: a get, set or remove call with a negative key throws, and the step
\* leaves size, capacity, max_size, keys and vals as they were.
C12_NegativeKeyThrows ==
  [][(pc = "table" /\ call'.op \in {"get", "set", "remove"} /\ call'.key < 0) =>
       /\ call'.out.kind = "throws"
       /\ pc' = "table"
       /\ UNCHANGED <<size, capacity, max_size, keys, vals>>]_vars

\* C12 witness: remove(-2) threw on a table that holds a live key and a
\* tombstone (the slot marker a probe for -2 would match).
C12_Witness ==
  /\ pc = "table"
  /\ call.op = "remove"
  /\ call.key = kTombstone
  /\ call.out.kind = "throws"
  /\ size >= 1
  /\ \E i \in DOMAIN keys : keys[i] = kTombstone

\* C12 second witness case: set(-1, v) threw on a table at its maximum load.
C12_SetThrewAtFullLoad ==
  /\ pc = "table"
  /\ call.op = "set"
  /\ call.key = kMissing
  /\ call.out.kind = "throws"
  /\ size = max_size

\* Partial correctness of get (what is left of C1 on the calls that return):
\* a get that returns, returns what the map holds.
GetThatReturnsReadsTheMap ==
  (pc = "table" /\ call.op = "get" /\ call.key >= 0) =>
    call.out = shadow[call.key]

InTable(k) == \E i \in 0..(capacity - 1) : keys[i] = k

\* No key is stored in two slots, and size is the number of slots that hold
\* a live key (which is the number of keys the map of the calls holds).
SizeCountsLiveKeys ==
  pc \in {"table", "table_hung"} =>
    /\ \A i, j \in 0..(capacity - 1) : (keys[i] >= 0 /\ keys[i] = keys[j]) => i = j
    /\ size = Cardinality({i \in 0..(capacity - 1) : keys[i] >= 0})
    /\ size = Cardinality({k \in HTKeys : shadow[k] # Absent})

\* C20: a set(k, v) that returns increases size by exactly 1 when k is not in
\* the table (a tombstone slot reused or not) and leaves it unchanged when it
\* overwrites k; a remove(k) that returns decreases size by exactly 1 when k
\* is in the table and leaves it unchanged when not; show() never throws; and
\* in every state no key is stored in two slots and size is the number of
\* slots that hold a live key.
C20_SizeBookkeeping ==
  /\ []SizeCountsLiveKeys
  /\ [][(pc = "table" /\ call'.out.kind = "ok") =>
          /\ call'.op = "set" =>
               size' = size + (IF InTable(call'.key) THEN 0 ELSE 1)
          /\ call'.op = "remove" =>
               size' = size - (IF InTable(call'.key) THEN 1 ELSE 0)
          /\ call'.op \in {"get", "show"} => size' = size]_vars
  /\ [](pc \in {"table", "table_hung"} /\ call.op = "show" =>
          call.out.kind = "ok")

\* C20 witness: a set put a new key in a slot that held a tombstone, in a
\* table that still holds another tombstone, and size counts the key.
C20_Witness ==
  /\ pc = "table"
  /\ call.op = "set"
  /\ call.out = [kind |-> "ok", val |-> 1]
  /\ ~call.resized
  /\ size >= 2
  /\ \E i \in 0..(capacity - 1) : keys[i] = kTombstone

\* C20 second witness case: show() ran on a table with live keys and a
\* tombstone.
C20_ShowRan ==
  /\ pc = "table"
  /\ call.op = "show"
  /\ call.out.kind = "ok"
  /\ size >= 2
  /\ \E i \in 0..(capacity - 1) : keys[i] = kTombstone

\* ------------------------------------------------------------------------
\* Claims about Matrix.

InMatrix(p) ==
  /\ 0 <= PointX(p) /\ PointX(p) < PointX(mxsize)
  /\ 0 <= PointY(p) /\ PointY(p) < PointY(mxsize)

\* What the call c had to return, given the value last written to each
\* point before the call.
MatrixCallRight(c, written) ==
  IF InMatrix(c.point)
  THEN /\ c.op \in {"get", "getOrNull"} =>
            c.out = [kind |-> "value", val |-> written[c.point]]
       /\ c.op = "set" => c.out.kind = "ok"
  ELSE /\ c.op \in {"get", "set"} => c.out.kind = "throws"
       /\ c.op = "getOrNull" => c.out.kind = "null"

\* C13: for a point inside the matrix, get and getOrNull return the value
\* last written to it by the constructor, set or fill, and set changes the
\* cell of that point only (every other point still reads as before); for a
\* point outside, get and set throw, getOrNull returns null, and no cell
\* changes.
C13_MatrixBounds ==
  [][pc = "matrix" /\ mxcall'.op \in {"get", "getOrNull", "set"} =>
       /\ MatrixCallRight(mxcall', mxshadow)
       /\ (mxcall'.op # "set" \/ ~InMatrix(mxcall'.point)) => mxdata' = mxdata
       /\ \A q \in MatrixCells(mxsize) :
            MatrixGet([size |-> mxsize, data |-> mxdata'], q) =
              [kind |-> "value",
               val |-> IF mxcall'.op = "set" /\ q = mxcall'.point
                       THEN mxcall'.out.val
                       ELSE MatrixGet(Matrix, q).val]]_vars

\* C13 witness: on a 2 x 2 matrix whose cells do not all hold the same
\* value, get threw for the point (-1, 1), whose index -1 + 2 * 1 is the
\* index of the cell (1, 0).
C13_Witness ==
  /\ pc = "matrix"
  /\ mxsize = PointMake(2, 2)
  /\ mxcall.op = "get"
  /\ mxcall.point = PointMake(-1, 1)
  /\ mxcall.out.kind = "throws"
  /\ \E i, j \in DOMAIN mxdata : mxdata[i] # mxdata[j]

\* C13 second witness case: get returned a value that set wrote to the cell
\* (1, 1) while the cell (0, 1) holds the other value.
C13_GetReadTheCell ==
  /\ pc = "matrix"
  /\ mxsize = PointMake(2, 2)
  /\ mxcall = [op |-> "get", point |-> PointMake(1, 1),
               out |-> [kind |-> "value", val |-> "BLOCKED"]]
  /\ mxshadow[PointMake(0, 1)] = "FREE"

\* ------------------------------------------------------------------------
\* Claims about LOS.

\* C6 as stated: LOS(b, a) is exactly the reverse of LOS(a, b).
C6_LOSSymmetric ==
  pc = "los_done" => lbwd = Reverse(lfwd)

StepOK(p, q, xMajor) ==
  LET dx == Abs(PointX(q) - PointX(p))
      dy == Abs(PointY(q) - PointY(p))
  IN  IF xMajor THEN dx = 1 /\ dy <= 1 ELSE dy = 1 /\ dx <= 1

\* C10: LOS(a, b) starts with a, ends with b, has max(|dx|, |dy|) + 1 cells,
\* and each cell is one unit further on the dominant axis and at most one
\* unit away on the other axis than the cell before it.
C10_LOSShape ==
  pc = "los_done" =>
    LET adx == Abs(PointX(la) - PointX(lb))
        ady == Abs(PointY(la) - PointY(lb))
    IN  /\ Len(lfwd) = Max(adx, ady) + 1
        /\ lfwd[1] = la
        /\ lfwd[Len(lfwd)] = lb
        /\ \A i \in 1..(Len(lfwd) - 1) : StepOK(lfwd[i], lfwd[i + 1], adx >= ady)

\* C10 witness: a line with a shallow slope that takes minor-axis steps.
C10_Witness ==
  /\ pc = "los_done"
  /\ la = PointMake(-1, 2)
  /\ lb = PointMake(3, -1)
  /\ Len(lfwd) = 5
  /\ \E i \in 1..4 : PointY(lfwd[i]) = PointY(lfwd[i + 1])
  /\ \E i \in 1..4 : PointY(lfwd[i]) # PointY(lfwd[i + 1])

====
